---- MODULE Spec2Model ----
(***************************************************************************)
(* Treegraph series (src/unnamed/part_001): collapse / expand of nodes,    *)
(* the link list of a layout pass, the layout modifiers, the placement of  *)
(* nodes, the paths of links and the levels of the tree.                   *)
(*                                                                         *)
(* Spec           the click handler and the link list over a tree of       *)
(*                points (collapsed / hidden flags, getLinks).             *)
(* SpecModifiers  getLayoutModifiers and translateNode over lists of       *)
(*                points with arbitrary abstract positions and marker      *)
(*                options; numbers are exact rationals <<num, den>>.       *)
(* SpecLinks      the whole pass translate() and drawPoints() over a tree  *)
(*                of points: link list, modifiers, boxes, translateLink.   *)
(* SpecTree       buildTree: the levels of the nodes, with points that     *)
(*                carry a level of their own.                              *)
(* SpecLayout     calculatePositions as spec section 4.2 describes it (the *)
(*                layout class is not part of src/unnamed).                *)
(* SpecLifecycle  the link objects of a dataset whose points gain and lose *)
(*                parents and are removed between passes (getLinks).       *)
(* SpecAttribs    pointAttribs on a link or a node under every combination *)
(*                of state, point, level and series options.               *)
(* SpecDraw       drawPoints and drawDataLabels on series.points.          *)
(* SpecSidebar    show() / hide() of the edit sidebar (src/unnamed/        *)
(*                part_000) and its transition-end listeners.              *)
(***************************************************************************)
EXTENDS Integers, Sequences, FiniteSets, TLC

\* ------------------------------------------------------------------ bounds
\* Number of points of the tree of Spec (7 = the balanced 3-level tree).
NumNodes == 7

Nodes == 1..NumNodes

\* Largest number of points of a list of SpecModifiers.
MaxPoints == 2

\* node.parent of a root-level node is '' (falsy): 0 here.
NoParent == 0

\* ------------------------------------------------------------------- state
VARIABLES
    parent,        \* Spec: point -> its node's parent (NoParent for the root)
    collapsed,     \* Spec: point.collapsed
    hidden,        \* Spec: point.hidden
    links,         \* Spec: series.links, the points whose link is in the list
    linkToParent,  \* Spec: point -> whether point.linkToParent exists
    linkIndex,     \* Spec: point -> point.linkToParent.index
    laidOut,       \* Spec: a layout pass (translate) has run
    lastClick,     \* Spec: history, the node of the latest click (0: none)
    prevClick,     \* Spec: history, the node of the click before it (0: none)
    pre,           \* Spec: history, the flags before the latest click
    pre2,          \* Spec: history, the flags before the click before it
    points,        \* SpecModifiers: series.points, each with node.xPosition,
                   \*   node.yPosition and point.options.marker
    plotSizeX,     \* SpecModifiers: chart.plotSizeX
    plotSizeY,     \* SpecModifiers: chart.plotSizeY
    inverted,      \* SpecModifiers: chart.inverted
    reversed,      \* SpecModifiers: series.options.reversed
    pc,            \* SpecModifiers: the step of translate() reached
    nodeSize,      \* SpecModifiers: node.nodeSizeX / node.nodeSizeY per point
    layoutModifier,\* SpecModifiers: series.layoutModifier
    shapeArgs,     \* SpecModifiers: point.shapeArgs per point
    linkOptions,   \* SpecLinks: series.options.link
    ownLinkType,   \* SpecLinks: point -> link.options.link.type of its link
    ownLinkWidth,  \* SpecLinks: point -> link.options.link.lineWidth
    levelLinkWidth,\* SpecLinks: level -> link.lineWidth of the level's
                   \*   options and of its states.hover options
    unplaced,      \* SpecLinks: the points whose object, as the links of the
                   \*   pass reference it, carries no shapeArgs
    linkGeometry,  \* SpecLinks: point -> plotX, plotY, shapeArgs, dlBox and
                   \*   tooltipPos of point.linkToParent
    drawn,         \* SpecLinks: point -> the path drawPoints handed to the
                   \*   renderer for point.linkToParent
    passSize,      \* SpecLinks: history, the plot size of the latest pass
    repeated,      \* SpecLinks: history, the latest pass ran on the inputs
                   \*   of the pass before it
    pointLevel,    \* SpecTree: point -> point.level (Undefined: not set)
    nodeLevel,     \* SpecTree: node -> node.level (0: the root node '')
    position,      \* SpecLayout: node -> its position on the secondary axis
    data,          \* SpecLifecycle: series.data, the points of the dataset
    hasParent,     \* SpecLifecycle: point -> point.node.parent is set
    linkObject,    \* SpecLifecycle: point -> point.linkToParent, the link
                   \*   object (0: none)
    linkStore,     \* SpecLifecycle: the link objects ever made, in the
                   \*   order of their construction
    seriesLinks,   \* SpecLifecycle: series.links
    lastOp,        \* SpecLifecycle: history, the latest operation
    attribInput,   \* SpecAttribs: the point pointAttribs is called on: is
                   \*   it a link, and the options it resolves
    pointState,    \* SpecAttribs: the state pointAttribs is called with
    attribs,       \* SpecAttribs: the attributes pointAttribs returned
    seriesPoints,  \* SpecDraw: series.points
    seriesLinkList,\* SpecDraw: series.links
    dataLabels,    \* SpecDraw: series.options.dataLabels
    labelled,      \* SpecDraw: what the latest draw call handed to the
                   \*   inherited draw methods, call by call
    drawPre,       \* SpecDraw: history, series.points and the textPath of
                   \*   the dataLabels options before the latest draw call
    lastDraw,      \* SpecDraw: history, the latest draw call
    isVisible,     \* SpecSidebar: sidebar.isVisible
    context,       \* SpecSidebar: sidebar.context
    currentTab,    \* SpecSidebar: the tab that carries the class 'current'
    callbacks,     \* SpecSidebar: the transition-end listeners of
                   \*   sidebar.container, in the order they were added
    editActive,    \* SpecSidebar: editMode.isActive()
    isContextDetectionActive,
                   \* SpecSidebar: editMode.isContextDetectionActive
    lastCall,      \* SpecSidebar: history, the latest of show() / hide()
    assigned       \* SpecSidebar: history, the latest step was a
                   \*   transition end that assigned true to
                   \*   isContextDetectionActive

treeVars == <<parent, collapsed, hidden, links, linkToParent, linkIndex,
              laidOut, lastClick, prevClick, pre, pre2>>

passVars == <<points, plotSizeX, plotSizeY, inverted, reversed, pc, nodeSize,
              layoutModifier, shapeArgs>>

linkVars == <<linkOptions, ownLinkType, ownLinkWidth, levelLinkWidth,
              unplaced, linkGeometry, drawn, passSize, repeated>>

structVars == <<pointLevel, nodeLevel, position>>

lifeVars == <<data, hasParent, linkObject, linkStore, seriesLinks, lastOp>>

attribVars == <<attribInput, pointState, attribs>>

drawVars == <<seriesPoints, seriesLinkList, dataLabels, labelled, drawPre,
              lastDraw>>

sidebarVars == <<isVisible, context, currentTab, callbacks, editActive,
                 isContextDetectionActive, lastCall, assigned>>

restVars == <<lifeVars, attribVars, drawVars, sidebarVars>>

vars == <<treeVars, passVars, linkVars, structVars, restVars>>

\* ------------------------------------------------------------ tree shapes
\* TreemapSeries.getTree keeps every point of the data in the tree, hidden
\* or not; the shapes below are the parent relations the data may give.
HeapParent == [i \in Nodes |-> i \div 2]
ChainParent == [i \in Nodes |-> i - 1]
StarParent == [i \in Nodes |-> IF i = 1 THEN NoParent ELSE 1]
Shapes == {HeapParent, ChainParent, StarParent}

\* node.children, in input order.
RECURSIVE ChildrenFrom(_, _)
ChildrenFrom(node, i) ==
    IF i > NumNodes THEN <<>>
    ELSE IF parent[i] = node THEN <<i>> \o ChildrenFrom(node, i + 1)
    ELSE ChildrenFrom(node, i + 1)

Children(node) == ChildrenFrom(node, 1)

\* The proper ancestors and the descendants of a node in the tree.
RECURSIVE AncestorsOf(_)
AncestorsOf(p) ==
    IF parent[p] = NoParent THEN {}
    ELSE {parent[p]} \cup AncestorsOf(parent[p])

Descendants(node) == {p \in Nodes : node \in AncestorsOf(p)}

\* ------------------------------------------------ collapseTreeFromPoint
\* Mutant: only the immediate children are marked, no recursion.
collapseChildrenOnly(h, node, hid) ==
    [p \in Nodes |-> IF parent[p] = node THEN hid ELSE h[p]]

\* Mutant: the walk marks every descendant hidden, whatever `hidden` is.
collapseAlwaysHides(h, node, hid) ==
    [p \in Nodes |-> IF node \in AncestorsOf(p) THEN TRUE ELSE h[p]]

\* node.children.forEach(child => { child.point.hidden = hidden;
\*     child.point.update({ visible: !hidden }, false);
\*     collapseTreeFromPoint(child, child.point.hidden) })
\* (point.visible is ~hidden throughout and is not a variable of its own).
RECURSIVE collapseTreeFromPoint(_, _, _)
RECURSIVE collapseEach(_, _, _)
collapseTreeFromPoint(h, node, hid) ==
    collapseEach(h, Children(node), hid)

collapseEach(h, kids, hid) ==
    IF kids = <<>> THEN h
    ELSE LET child == Head(kids)
             h1 == [h EXCEPT ![child] = hid]
             h2 == collapseTreeFromPoint(h1, child, h1[child])
         IN collapseEach(h2, Tail(kids), hid)

\* Mutant: the toggle also collapses / expands the children of the node.
toggleWithChildren(c, node) ==
    [p \in Nodes |-> IF p = node \/ parent[p] = node THEN ~c[node] ELSE c[p]]

\* node.point.collapsed = !node.point.collapsed
toggleCollapsed(c, node) == [c EXCEPT ![node] = ~c[node]]

\* ----------------------------------------------------------------- getLinks
\* One iteration of this.data.forEach in getLinks. acc.links is the local
\* list `links`, acc.old is series.links (spliced when a link is destroyed),
\* acc.has is point.linkToParent, acc.index is point.linkToParent.index.
getLinksStep(acc, point) ==
    IF parent[point] # NoParent
    THEN [links |-> Append(acc.links, point),
          old   |-> acc.old,
          has   |-> [acc.has EXCEPT ![point] = TRUE],
          index |-> [acc.index EXCEPT ![point] = Len(acc.links)]]
    ELSE IF acc.has[point]
    THEN [links |-> acc.links,
          old   |-> SubSeq(acc.old, 1,
                      IF acc.index[point] < Len(acc.old)
                      THEN acc.index[point] ELSE Len(acc.old)),
          has   |-> [acc.has EXCEPT ![point] = FALSE],
          index |-> acc.index]
    ELSE acc

RECURSIVE getLinksFrom(_, _)
getLinksFrom(acc, i) ==
    IF i > NumNodes THEN acc
    ELSE getLinksFrom(getLinksStep(acc, i), i + 1)

\* Mutant: the list of the pass starts from series.links, not from [].
getLinksKeepsOld ==
    getLinksFrom([links |-> links, old |-> links,
                  has |-> linkToParent, index |-> linkIndex], 1)

getLinks ==
    getLinksFrom([links |-> <<>>, old |-> links,
                  has |-> linkToParent, index |-> linkIndex], 1)

\* translate(): series.links = series.getLinks() (the geometry of the pass
\* does not read collapsed / hidden; it is modelled in SpecModifiers).
translateLinks ==
    LET got == getLinks
    IN /\ links' = got.links
       /\ linkToParent' = got.has
       /\ linkIndex' = got.index
       /\ laidOut' = TRUE

\* ------------------------------------------------------------------ actions
\* The variables of the other specification, at rest.
PassIdle ==
    /\ points = <<>>
    /\ plotSizeX = 0
    /\ plotSizeY = 0
    /\ inverted = FALSE
    /\ reversed = FALSE
    /\ pc = "idle"
    /\ nodeSize = <<>>
    /\ layoutModifier = <<>>
    /\ shapeArgs = <<>>

\* The variables of the links of SpecLinks, at rest.
LinkIdle ==
    /\ linkOptions = <<>>
    /\ ownLinkType = <<>>
    /\ ownLinkWidth = <<>>
    /\ levelLinkWidth = <<>>
    /\ unplaced = {}
    /\ linkGeometry = <<>>
    /\ drawn = <<>>
    /\ passSize = <<0, 0>>
    /\ repeated = FALSE

\* The variables of SpecLifecycle, at rest.
LifeIdle ==
    /\ data = <<>>
    /\ hasParent = <<>>
    /\ linkObject = <<>>
    /\ linkStore = <<>>
    /\ seriesLinks = <<>>
    /\ lastOp = "idle"

\* The variables of SpecAttribs, at rest.
AttribIdle ==
    /\ attribInput = <<>>
    /\ pointState = "undefined"
    /\ attribs = <<>>

\* The variables of SpecDraw, at rest.
DrawIdle ==
    /\ seriesPoints = <<>>
    /\ seriesLinkList = <<>>
    /\ dataLabels = <<>>
    /\ labelled = <<>>
    /\ drawPre = <<>>
    /\ lastDraw = "idle"

\* The variables of SpecSidebar, at rest.
SidebarIdle ==
    /\ isVisible = FALSE
    /\ context = "undefined"
    /\ currentTab = "none"
    /\ callbacks = <<>>
    /\ editActive = FALSE
    /\ isContextDetectionActive = FALSE
    /\ lastCall = "idle"
    /\ assigned = FALSE

RestIdle == LifeIdle /\ AttribIdle /\ DrawIdle /\ SidebarIdle

\* The variables of SpecTree and SpecLayout, at rest.
StructIdle ==
    /\ pointLevel = <<>>
    /\ nodeLevel = <<>>
    /\ position = <<>>

Init ==
    /\ PassIdle
    /\ LinkIdle
    /\ RestIdle
    /\ StructIdle
    /\ parent \in Shapes
    /\ collapsed = [p \in Nodes |-> FALSE]
    /\ hidden = [p \in Nodes |-> FALSE]
    /\ links = <<>>
    /\ linkToParent = [p \in Nodes |-> FALSE]
    /\ linkIndex = [p \in Nodes |-> 0]
    /\ laidOut = FALSE
    /\ lastClick = 0
    /\ prevClick = 0
    /\ pre = [collapsed |-> collapsed, hidden |-> hidden]
    /\ pre2 = pre

\* addEvent(TreegraphSeries, 'click', ...): the click reaches the points that
\* are drawn, i.e. the ones not hidden; this.redraw() runs translate().
Click(node) ==
    /\ ~hidden[node]
    /\ collapsed' = toggleCollapsed(collapsed, node)
    /\ hidden' = collapseTreeFromPoint(hidden, node, collapsed'[node])
    /\ translateLinks
    /\ lastClick' = node
    /\ prevClick' = lastClick
    /\ pre' = [collapsed |-> collapsed, hidden |-> hidden]
    /\ pre2' = pre
    /\ UNCHANGED <<parent, passVars, linkVars, structVars, restVars>>

\* A redraw that no click caused (first render, resize).
Translate ==
    /\ translateLinks
    /\ UNCHANGED <<parent, collapsed, hidden, lastClick, prevClick, pre, pre2,
                   passVars, linkVars, structVars, restVars>>

Next ==
    \/ \E node \in Nodes : Click(node)
    \/ Translate

Spec == Init /\ [][Next]_vars

\* ---------------------------------------------------- collapse: the claims
InList(list) == {list[i] : i \in 1..Len(list)}

\* The latest click moved its node from expanded to collapsed / back.
ClickCollapsed == lastClick # 0 /\ collapsed[lastClick] /\ ~pre.collapsed[lastClick]
ClickExpanded == lastClick # 0 /\ ~collapsed[lastClick] /\ pre.collapsed[lastClick]

\* C1: after a click that moved a node from expanded to collapsed, every
\* descendant of the node, at any depth, has hidden = TRUE.
C1_CollapseHidesAllDescendants ==
    ClickCollapsed => \A d \in Descendants(lastClick) : hidden[d]

\* A collapse of a node that has descendants below its children, one of
\* which was visible before the click.
C1_Witness ==
    /\ ClickCollapsed
    /\ \E d \in Descendants(lastClick) :
           parent[d] # lastClick /\ ~pre.hidden[d] /\ hidden[d]

\* A descendant of the clicked node lies below a descendant that is itself
\* collapsed.
Blocked(d) ==
    \E a \in AncestorsOf(d) \cap Descendants(lastClick) : collapsed[a]

\* C2: after a click that moved a node from collapsed to expanded, hidden is
\* cleared on its descendants down to the collapsed ones: a collapsed
\* descendant is visible, everything below it keeps hidden = TRUE.
C2_ExpandStopsAtCollapsed ==
    ClickExpanded =>
        \A d \in Descendants(lastClick) :
            IF Blocked(d) THEN hidden[d] ELSE ~hidden[d]

\* C3: two clicks in a row on a node none of whose descendants is collapsed
\* or hidden (collapse, then expand) restore the collapsed and hidden flags
\* of every node, and with them the link list of the pass.
C3_RoundTrip ==
    ( /\ lastClick # 0
      /\ prevClick = lastClick
      /\ ~pre2.collapsed[lastClick]
      /\ \A d \in Descendants(lastClick) :
             ~pre2.collapsed[d] /\ ~pre2.hidden[d] )
    => /\ collapsed = pre2.collapsed
       /\ hidden = pre2.hidden
       /\ InList(links) = {p \in Nodes : parent[p] # NoParent}

\* The round trip on a node with descendants below its children, which were
\* all hidden in between.
C3_Witness ==
    /\ lastClick # 0
    /\ prevClick = lastClick
    /\ ~pre2.collapsed[lastClick]
    /\ \E d \in Descendants(lastClick) : parent[d] # lastClick
    /\ \A d \in Descendants(lastClick) :
           ~pre2.collapsed[d] /\ ~pre2.hidden[d] /\ pre.hidden[d] /\ ~hidden[d]

\* C4: after every layout pass the link list holds a link for a point iff
\* the point's node has a parent and the point is not hidden.
C4_LinkIffParentAndVisible ==
    laidOut =>
        \A p \in Nodes :
            (p \in InList(links)) <=> (parent[p] # NoParent /\ ~hidden[p])

\* C5: every node starts expanded, and a click flips the collapsed flag of
\* exactly the clicked node.
C5_ClickFlipsOnlyClicked ==
    IF lastClick = 0
    THEN \A p \in Nodes : ~collapsed[p]
    ELSE collapsed = [pre.collapsed EXCEPT ![lastClick] = ~pre.collapsed[lastClick]]

\* A click on a node with a collapsed descendant and a child, whose flags
\* the click leaves alone.
C5_Witness ==
    /\ lastClick # 0
    /\ \E d \in Descendants(lastClick) : pre.collapsed[d] /\ collapsed[d]
    /\ \E d \in Descendants(lastClick) : ~pre.collapsed[d] /\ ~collapsed[d]

\* ======================================================================
\* getLayoutModifiers and translateNode
\* ======================================================================

\* ------------------------------------------------------- exact numbers
\* A number is <<num, den>> in lowest terms with den > 0; den = 0 is the
\* Infinity / NaN a division by zero yields.
Abs(x) == IF x < 0 THEN -x ELSE x

RECURSIVE GCD(_, _)
GCD(a, b) == IF b = 0 THEN a ELSE GCD(b, a % b)

Norm(n, d) ==
    IF d = 0 THEN <<IF n > 0 THEN 1 ELSE IF n < 0 THEN -1 ELSE 0, 0>>
    ELSE LET g == GCD(Abs(n), Abs(d))
             sg == IF d < 0 THEN -1 ELSE 1
         IN <<(sg * n) \div g, (sg * d) \div g>>

RInt(n) == <<n, 1>>
RAdd(a, b) == Norm(a[1] * b[2] + b[1] * a[2], a[2] * b[2])
RSub(a, b) == Norm(a[1] * b[2] - b[1] * a[2], a[2] * b[2])
RMul(a, b) == Norm(a[1] * b[1], a[2] * b[2])
RDiv(a, b) == Norm(a[1] * b[2], a[2] * b[1])
RNeg(a) == <<-a[1], a[2]>>
RLeq(a, b) == a[1] * b[2] <= b[1] * a[2]
Finite(a) == a[2] # 0

\* ------------------------------------------------------------- options
\* `undefined` for a numeric option; "undefined" for a symbol.
Undefined == -1

\* let minX = Infinity, maxX = -Infinity
Infinity == 1000000

\* pick(a, b): the first argument that is defined.
pick(a, b) == IF a # Undefined THEN a ELSE b

\* value || 0
OrZero(a) == IF a = Undefined THEN 0 ELSE a

\* The comma operator: (a, b) evaluates a, then yields b.
Comma(a, b) == b

\* defaultOptions.marker
seriesMarker ==
    [symbol |-> "circle", radius |-> 10, width |-> Undefined,
     height |-> Undefined, lineWidth |-> 0]

\* merge(this.options.marker, point.options.marker)
merge(a, b) ==
    [symbol    |-> IF b.symbol # "undefined" THEN b.symbol ELSE a.symbol,
     radius    |-> pick(b.radius, a.radius),
     width     |-> pick(b.width, a.width),
     height    |-> pick(b.height, a.height),
     lineWidth |-> pick(b.lineWidth, a.lineWidth)]

markerOptions(point) == merge(seriesMarker, point.marker)

\* nodeSizeY = symbol === 'circle' ? (pick(markerOptions.radius), 0) * 2 :
\*     pick(markerOptions.height, markerOptions.radius * 2)
nodeSizeYOf(m) ==
    IF m.symbol = "circle" THEN Comma(pick(m.radius, 0), 0) * 2
    ELSE pick(m.height, m.radius * 2)

\* nodeSizeX = symbol === 'circle' ? markerOptions.radius * 2 :
\*     pick(markerOptions.width, markerOptions.radius * 2)
nodeSizeXOf(m) ==
    IF m.symbol = "circle" THEN m.radius * 2
    ELSE pick(m.width, m.radius * 2)

Max(a, b) == IF a >= b THEN a ELSE b

\* ------------------------------------------------------------ the scan
scanStart ==
    [minX |-> Infinity, maxX |-> -Infinity, minY |-> Infinity,
     maxY |-> -Infinity, maxXSize |-> 0, minXSize |-> 0,
     maxYSize |-> 0, minYSize |-> 0]

\* One iteration of this.points.forEach in getLayoutModifiers.
scanStep(acc, point) ==
    LET m == markerOptions(point)
        sizeX == nodeSizeXOf(m)
        sizeY == nodeSizeYOf(m)
        lineWidth == OrZero(m.lineWidth)
        a1 == IF point.xPosition <= acc.minX
              THEN [acc EXCEPT !.minX = point.xPosition,
                               !.minXSize = Max(sizeX + lineWidth, acc.minXSize)]
              ELSE acc
        a2 == IF point.xPosition >= a1.maxX
              THEN [a1 EXCEPT !.maxX = point.xPosition,
                              !.maxXSize = Max(sizeX + lineWidth, a1.maxXSize)]
              ELSE a1
        a3 == IF point.yPosition <= a2.minY
              THEN [a2 EXCEPT !.minY = point.yPosition,
                              !.minYSize = Max(sizeY + lineWidth, a2.minYSize)]
              ELSE a2
        a4 == IF point.yPosition >= a3.maxY
              THEN [a3 EXCEPT !.maxY = point.yPosition,
                              !.maxYSize = Max(sizeY + lineWidth, a3.maxYSize)]
              ELSE a3
    IN a4

RECURSIVE scanFrom(_, _, _)
scanFrom(acc, pts, i) ==
    IF i > Len(pts) THEN acc
    ELSE scanFrom(scanStep(acc, pts[i]), pts, i + 1)

scan(pts) == scanFrom(scanStart, pts, 1)

\* ------------------------------------------------- the linear transform
Half(n) == Norm(n, 2)

\* Mutant: the scale is computed without the max === min guard.
modifiersUnguarded(s, sizeX, sizeY) ==
    LET ay == RDiv(RSub(RInt(sizeY), Half(s.minYSize + s.maxYSize)),
                   RInt(s.maxY - s.minY))
        by == RAdd(RMul(RNeg(ay), RInt(s.minY)), Half(s.minYSize))
        ax == RDiv(RSub(RInt(sizeX), Half(s.maxXSize + s.maxXSize)),
                   RInt(s.maxX - s.minX))
        bx == RAdd(RMul(RNeg(ax), RInt(s.minX)), Half(s.minXSize))
    IN [ax |-> ax, bx |-> bx, ay |-> ay, by |-> by]

\* Mutant: the offsets are solved for the size at the maximum.
modifiersOffsetAtMax(s, sizeX, sizeY) ==
    LET ay == IF s.maxY = s.minY THEN RInt(1)
              ELSE RDiv(RSub(RInt(sizeY), Half(s.minYSize + s.maxYSize)),
                        RInt(s.maxY - s.minY))
        by == IF s.maxY = s.minY THEN Half(sizeY)
              ELSE RAdd(RMul(RNeg(ay), RInt(s.minY)), Half(s.maxYSize))
        ax == IF s.maxX = s.minX THEN RInt(1)
              ELSE RDiv(RSub(RInt(sizeX), Half(s.maxXSize + s.maxXSize)),
                        RInt(s.maxX - s.minX))
        bx == IF s.maxX = s.minX THEN Half(sizeX)
              ELSE RAdd(RMul(RNeg(ax), RInt(s.minX)), Half(s.maxXSize))
    IN [ax |-> ax, bx |-> bx, ay |-> ay, by |-> by]

\* const ay = maxY === minY ? 1 :
\*         (plotSizeY - (minYSize + maxYSize) / 2) / (maxY - minY),
\*     by = maxY === minY ? plotSizeY / 2 : -ay * minY + minYSize / 2,
\*     ax = maxX === minX ? 1 :
\*         (plotSizeX - (maxXSize + maxXSize) / 2) / (maxX - minX),
\*     bx = maxX === minX ? plotSizeX / 2 : -ax * minX + minXSize / 2;
modifiers(s, sizeX, sizeY) ==
    LET ay == IF s.maxY = s.minY THEN RInt(1)
              ELSE RDiv(RSub(RInt(sizeY), Half(s.minYSize + s.maxYSize)),
                        RInt(s.maxY - s.minY))
        by == IF s.maxY = s.minY THEN Half(sizeY)
              ELSE RAdd(RMul(RNeg(ay), RInt(s.minY)), Half(s.minYSize))
        ax == IF s.maxX = s.minX THEN RInt(1)
              ELSE RDiv(RSub(RInt(sizeX), Half(s.maxXSize + s.maxXSize)),
                        RInt(s.maxX - s.minX))
        bx == IF s.maxX = s.minX THEN Half(sizeX)
              ELSE RAdd(RMul(RNeg(ax), RInt(s.minX)), Half(s.minXSize))
    IN [ax |-> ax, bx |-> bx, ay |-> ay, by |-> by]

getLayoutModifiers == modifiers(scan(points), plotSizeX, plotSizeY)

\* ------------------------------------------------------- translateNode
\* Mutant: chart.inverted is not read, the box is never mirrored in x.
translateNodeNoMirror(i) ==
    LET node == points[i]
        lm == layoutModifier'
        x == RAdd(RMul(lm.ax, RInt(node.xPosition)), lm.bx)
        y == RAdd(RMul(lm.ay, RInt(node.yPosition)), lm.by)
        height == nodeSize'[i].y
        width == nodeSize'[i].x
        nodeX == RSub(x, Half(width))
        nodeY == IF ~reversed
                 THEN RSub(RSub(RInt(plotSizeY), y), Half(height))
                 ELSE RSub(y, Half(height))
    IN [x |-> nodeX, y |-> nodeY, width |-> width, height |-> height]

\* x = ax * node.xPosition + bx, y = ay * node.yPosition + by; the box is
\* anchored at its top-left corner (nodeX, nodeY).
translateNode(i) ==
    LET node == points[i]
        lm == layoutModifier'
        x == RAdd(RMul(lm.ax, RInt(node.xPosition)), lm.bx)
        y == RAdd(RMul(lm.ay, RInt(node.yPosition)), lm.by)
        height == nodeSize'[i].y
        width == nodeSize'[i].x
        nodeX == IF inverted
                 THEN RSub(RSub(RInt(plotSizeX), Half(width)), x)
                 ELSE RSub(x, Half(width))
        nodeY == IF ~reversed
                 THEN RSub(RSub(RInt(plotSizeY), y), Half(height))
                 ELSE RSub(y, Half(height))
    IN [x |-> nodeX, y |-> nodeY, width |-> width, height |-> height]

\* ------------------------------------------------------------- inputs
\* point.options.marker as the data may give it.
MarkerChoices ==
    { [symbol |-> "undefined", radius |-> Undefined, width |-> Undefined,
       height |-> Undefined, lineWidth |-> Undefined],
      [symbol |-> "square", radius |-> Undefined, width |-> 30,
       height |-> Undefined, lineWidth |-> 2],
      [symbol |-> "square", radius |-> 4, width |-> Undefined,
       height |-> 14, lineWidth |-> 1] }

\* Abstract coordinates a layout algorithm may assign.
Positions == {0, 1, 2}

\* <<chart.plotSizeX, chart.plotSizeY>>
PlotSizes == {<<100, 60>>, <<75, 75>>}

PointChoices ==
    [xPosition : Positions, yPosition : Positions, marker : MarkerChoices]

\* No two nodes of a layout share both coordinates.
DistinctPositions(pts) ==
    \A i, j \in 1..Len(pts) :
        i # j => \/ pts[i].xPosition # pts[j].xPosition
                 \/ pts[i].yPosition # pts[j].yPosition

TreeIdle ==
    /\ parent = HeapParent
    /\ collapsed = [p \in Nodes |-> FALSE]
    /\ hidden = [p \in Nodes |-> FALSE]
    /\ links = <<>>
    /\ linkToParent = [p \in Nodes |-> FALSE]
    /\ linkIndex = [p \in Nodes |-> 0]
    /\ laidOut = FALSE
    /\ lastClick = 0
    /\ prevClick = 0
    /\ pre = [collapsed |-> collapsed, hidden |-> hidden]
    /\ pre2 = pre

InitModifiers ==
    /\ TreeIdle
    /\ LinkIdle
    /\ RestIdle
    /\ StructIdle
    /\ \E n \in 1..MaxPoints : points \in [1..n -> PointChoices]
    /\ DistinctPositions(points)
    /\ \E size \in PlotSizes : plotSizeX = size[1] /\ plotSizeY = size[2]
    /\ inverted \in BOOLEAN
    /\ reversed \in BOOLEAN
    /\ pc = "dirty"
    /\ nodeSize = <<>>
    /\ layoutModifier = <<>>
    /\ shapeArgs = <<>>

\* translate(): series.layoutModifier = this.getLayoutModifiers(), which
\* also stores node.nodeSizeX / node.nodeSizeY; then
\* this.points.forEach(point => this.translateNode(point)). The abstract
\* positions are what calculatePositions left on the nodes.
translateNodes ==
    /\ nodeSize' = [i \in 1..Len(points) |->
                       [x |-> nodeSizeXOf(markerOptions(points[i])),
                        y |-> nodeSizeYOf(markerOptions(points[i]))]]
    /\ layoutModifier' = getLayoutModifiers
    /\ shapeArgs' = [i \in 1..Len(points) |-> translateNode(i)]

TranslateNodes ==
    /\ pc = "dirty"
    /\ pc' = "translated"
    /\ translateNodes
    /\ UNCHANGED <<points, plotSizeX, plotSizeY, inverted, reversed, treeVars,
                   linkVars, structVars, restVars>>

\* The chart is resized: the next pass starts from the same data.
Resize ==
    /\ pc = "translated"
    /\ \E size \in PlotSizes :
           /\ <<plotSizeX, plotSizeY>> # size
           /\ plotSizeX' = size[1]
           /\ plotSizeY' = size[2]
    /\ pc' = "dirty"
    /\ UNCHANGED <<points, inverted, reversed, nodeSize, layoutModifier,
                   shapeArgs, treeVars, linkVars,
                   structVars, restVars>>

NextModifiers ==
    \/ TranslateNodes
    \/ Resize

SpecModifiers == InitModifiers /\ [][NextModifiers]_vars

\* ------------------------------------------- layout modifiers: the claims
XPositions == {points[i].xPosition : i \in 1..Len(points)}
YPositions == {points[i].yPosition : i \in 1..Len(points)}
MinOf(set) == CHOOSE v \in set : \A w \in set : v <= w
MaxOf(set) == CHOOSE v \in set : \A w \in set : v >= w

\* A pass has run on the current inputs.
Translated == pc = "translated"

\* C6: on each axis whose maximum and minimum differ, the scale a satisfies
\* a * (max - min) = plotSize - (sizeAtMin + sizeAtMax) / 2 with the sizes
\* recorded for the minimum and the maximum of that same axis; for x and y.
C6_ScaleSolvesSpan ==
    Translated =>
        LET s == scan(points)
            lm == layoutModifier
        IN /\ MaxOf(YPositions) # MinOf(YPositions) =>
                  RMul(lm.ay, RInt(MaxOf(YPositions) - MinOf(YPositions)))
                      = RSub(RInt(plotSizeY), Half(s.minYSize + s.maxYSize))
           /\ MaxOf(XPositions) # MinOf(XPositions) =>
                  RMul(lm.ax, RInt(MaxOf(XPositions) - MinOf(XPositions)))
                      = RSub(RInt(plotSizeX), Half(s.minXSize + s.maxXSize))

\* C7: on an axis on which all nodes share one coordinate the scale is
\* exactly 1 and the offset exactly plotSize / 2, and no modifier is the
\* result of a division by zero.
C7_DegenerateAxis ==
    Translated =>
        LET lm == layoutModifier
        IN /\ MaxOf(XPositions) = MinOf(XPositions) =>
                  lm.ax = RInt(1) /\ lm.bx = Half(plotSizeX)
           /\ MaxOf(YPositions) = MinOf(YPositions) =>
                  lm.ay = RInt(1) /\ lm.by = Half(plotSizeY)
           /\ Finite(lm.ax) /\ Finite(lm.bx) /\ Finite(lm.ay) /\ Finite(lm.by)

\* Two nodes in one column (degenerate in x only), at a non-zero coordinate.
C7_Witness ==
    /\ Translated
    /\ Len(points) = 2
    /\ MaxOf(XPositions) = MinOf(XPositions)
    /\ MinOf(XPositions) # 0
    /\ MaxOf(YPositions) # MinOf(YPositions)

\* The centre of the box of point i.
CenterX(i) == RAdd(shapeArgs[i].x, Half(shapeArgs[i].width))
CenterY(i) == RAdd(shapeArgs[i].y, Half(shapeArgs[i].height))

\* C8: the box of the node of a single-node tree is centred on the centre
\* of the plot area, whatever abstract position the layout gave the node.
C8_SingleNodeCentred ==
    (Translated /\ Len(points) = 1) =>
        /\ CenterX(1) = Half(plotSizeX)
        /\ CenterY(1) = Half(plotSizeY)

C10_NodeSize ==
    Translated =>
        \A i \in 1..Len(points) :
            LET m == markerOptions(points[i])
            IN /\ nodeSize[i].x =
                      IF m.symbol = "circle" \/ m.width = Undefined
                      THEN 2 * m.radius ELSE m.width
               /\ nodeSize[i].y =
                      IF m.symbol = "circle" \/ m.height = Undefined
                      THEN 2 * m.radius ELSE m.height
               /\ shapeArgs[i].width = nodeSize[i].x
               /\ shapeArgs[i].height = nodeSize[i].y

\* ------------------------------------------------ translateNode: the claims
\* The affine image of the abstract position of point i.
ImageX(i) ==
    RAdd(RMul(layoutModifier.ax, RInt(points[i].xPosition)), layoutModifier.bx)
ImageY(i) ==
    RAdd(RMul(layoutModifier.ay, RInt(points[i].yPosition)), layoutModifier.by)

\* C11: the box of every node is anchored top-left with the node's size, its
\* centre is the affine image of the abstract position: in x that image,
\* mirrored to plotSizeX - x when the chart is inverted; in y that image when
\* reversed, plotSizeY - y when not.
C11_BoxCentredOnImage ==
    Translated =>
        \A i \in 1..Len(points) :
            /\ CenterX(i) = IF inverted THEN RSub(RInt(plotSizeX), ImageX(i))
                            ELSE ImageX(i)
            /\ CenterY(i) = IF reversed THEN ImageY(i)
                            ELSE RSub(RInt(plotSizeY), ImageY(i))
            /\ shapeArgs[i].width = nodeSize[i].x
            /\ shapeArgs[i].height = nodeSize[i].y

\* An inverted, not reversed chart with two nodes that differ on both axes,
\* neither image on the mirror axis.
C11_Witness ==
    /\ Translated
    /\ inverted /\ ~reversed
    /\ Len(points) = 2
    /\ points[1].xPosition # points[2].xPosition
    /\ points[1].yPosition # points[2].yPosition
    /\ \A i \in 1..2 : ImageX(i) # Half(plotSizeX) /\ ImageY(i) # Half(plotSizeY)

\* C12: when the plot is at least as large as every node on each axis, the
\* box of every placed node lies inside the plot area.
C12_BoxesInsidePlot ==
    ( /\ Translated
      /\ \A i \in 1..Len(points) :
             nodeSize[i].x <= plotSizeX /\ nodeSize[i].y <= plotSizeY )
    => \A i \in 1..Len(points) :
           /\ RLeq(RInt(0), shapeArgs[i].x)
           /\ RLeq(RAdd(shapeArgs[i].x, RInt(shapeArgs[i].width)), RInt(plotSizeX))
           /\ RLeq(RInt(0), shapeArgs[i].y)
           /\ RLeq(RAdd(shapeArgs[i].y, RInt(shapeArgs[i].height)), RInt(plotSizeY))

\* ======================================================================
\* translateLink and the whole pass
\* ======================================================================

\* ----------------------------------------------------- numbers of a link
\* `undefined` for an option that is a number with a fraction.
UndefinedNumber == <<Undefined, Undefined>>

\* pick(a, b) for such an option, and for a link type.
pickNumber(a, b) == IF a # UndefinedNumber THEN a ELSE b
pickType(a, b) == IF a # "undefined" THEN a ELSE b

\* Math.floor, Math.round (half up) and Math.abs.
MathFloor(a) == RInt(a[1] \div a[2])
MathRound(a) == (2 * a[1] + a[2]) \div (2 * a[2])
MathAbs(a) == <<Abs(a[1]), a[2]>>

\* PathUtilities.curvedPath(path, radius): the call and its two arguments.
curvedPath(path, r) == [curvedPath |-> path, r |-> r]

\* A point object without shapeArgs; a link that was never translated.
NoShape == [none |-> TRUE]
NoGeometry == [none |-> TRUE]

\* ------------------------------------------------------- translateLink
\* crisp = (Math.round(linkWidth) % 2) / 2
crispOf(linkWidth) == Half(MathRound(linkWidth) % 2)

\* link.node.level || 0 of the link to point c: the level of c's node.
linkLevel(c) == Cardinality(AncestorsOf(c)) + 1

\* Mutant: the options of the level are read before those of the point.
linkLineWidthLevelFirst(stateOptions, options, levelOptions, seriesOptions) ==
    pickNumber(stateOptions,
        pickNumber(levelOptions, pickNumber(options, seriesOptions)))

\* linkLineWidth = pick(stateOptions.link && stateOptions.link.lineWidth,
\*     options.link && options.link.lineWidth,
\*     levelOptions.link && levelOptions.link.lineWidth,
\*     series.options.link && series.options.link.lineWidth)
linkLineWidth(stateOptions, options, levelOptions, seriesOptions) ==
    pickNumber(stateOptions,
        pickNumber(options, pickNumber(levelOptions, seriesOptions)))

\* linkColor = pick(...), over link.color of the same four options.
linkColor(stateOptions, options, levelOptions, seriesOptions) ==
    pickType(stateOptions,
        pickType(options, pickType(levelOptions, seriesOptions)))

\* borderRadius = pick(...), over borderRadius of the same four options.
borderRadius(stateOptions, options, levelOptions, seriesOptions) ==
    pick(stateOptions, pick(options, pick(levelOptions, seriesOptions)))

\* Options that set neither link.color, link.lineWidth nor borderRadius.
NoOptions ==
    [color |-> "undefined", lineWidth |-> UndefinedNumber,
     borderRadius |-> Undefined]

\* pointAttribs(point, state), on the attributes `base` of
\* Series.prototype.pointAttribs. in.levelOptions is mapOptionsToLevel of
\* the point's level, in.hoverOptions its states.hover.
pointAttribs(base, in, state) ==
    LET stateOptions == IF state = "hover" THEN in.hoverOptions
                        ELSE NoOptions
        radius == borderRadius(stateOptions.borderRadius,
                      in.options.borderRadius, in.levelOptions.borderRadius,
                      in.seriesOptions.borderRadius)
    IN IF in.isLink
       THEN [base EXCEPT
                !.stroke = linkColor(stateOptions.color, in.options.color,
                               in.levelOptions.color, in.seriesOptions.color),
                !.strokeWidth =
                    linkLineWidth(stateOptions.lineWidth,
                        in.options.lineWidth, in.levelOptions.lineWidth,
                        in.seriesOptions.lineWidth),
                !.fill = "deleted"]
       ELSE IF radius # Undefined /\ radius # 0
       THEN [base EXCEPT !.r = radius]
       ELSE base

\* The stroke width pointAttribs gives the link to point c in SpecLinks.
linkStrokeWidth(c, state) ==
    LET levelOptions == levelLinkWidth[linkLevel(c)]
    IN linkLineWidth(IF state = "hover" THEN levelOptions.hover
                     ELSE UndefinedNumber,
                     ownLinkWidth[c], levelOptions.normal,
                     linkOptions.lineWidth)

\* Mutant: the link's own type is not read.
linkTypeSeriesOnly(ownType) == linkOptions.type

\* type = pick(link.options.link && link.options.link.type,
\*     this.options.link.type)
linkType(ownType) == pickType(ownType, linkOptions.type)

\* Mutant: the offset factor has no default.
linkFactorNoDefault == pickNumber(linkOptions.offset, RInt(0))

\* factor = pick(this.options.link.offset, 0.5)
linkFactor == pickNumber(linkOptions.offset, Half(1))

\* Mutant: the inverted chart takes the same edges as the plain one.
connectionPointsNoInvert(fromShape, toShape, crisp) ==
    [x1 |-> RAdd(MathFloor(RAdd(fromShape.x, RInt(fromShape.width))), crisp),
     y1 |-> RAdd(MathFloor(RAdd(fromShape.y, Half(fromShape.height))), crisp),
     x2 |-> RAdd(MathFloor(toShape.x), crisp),
     y2 |-> RAdd(MathFloor(RAdd(toShape.y, Half(toShape.height))), crisp)]

\* x1 = Math.floor(from.x + from.width) + crisp,
\* y1 = Math.floor(from.y + from.height / 2) + crisp,
\* x2 = Math.floor(to.x) + crisp, y2 = Math.floor(to.y + to.height / 2) + crisp;
\* if (inverted) { x1 -= from.width; x2 += to.width }
connectionPoints(fromShape, toShape, crisp) ==
    LET x1 == RAdd(MathFloor(RAdd(fromShape.x, RInt(fromShape.width))), crisp)
        x2 == RAdd(MathFloor(toShape.x), crisp)
    IN [x1 |-> IF inverted THEN RSub(x1, RInt(fromShape.width)) ELSE x1,
        y1 |-> RAdd(MathFloor(RAdd(fromShape.y, Half(fromShape.height))),
                    crisp),
        x2 |-> IF inverted THEN RAdd(x2, RInt(toShape.width)) ELSE x2,
        y2 |-> RAdd(MathFloor(RAdd(toShape.y, Half(toShape.height))), crisp)]

\* Mutant: the midline runs through the exit point.
linkMiddleAtExit(x1, x2, crisp) == x1

\* xMiddle = Math.floor((x2 + x1) / 2) + crisp
linkMiddle(x1, x2, crisp) ==
    RAdd(MathFloor(RDiv(RAdd(x2, x1), RInt(2))), crisp)

\* link.shapeArgs.d for the three types.
linkPath(type, p, xMiddle, factor) ==
    IF type = "straight"
    THEN << <<"M", p.x1, p.y1>>, <<"L", p.x2, p.y2>> >>
    ELSE IF type = "curved"
    THEN LET offset == RMul(RMul(MathAbs(RSub(p.x2, p.x1)), factor),
                            RInt(IF inverted THEN -1 ELSE 1))
         IN << <<"M", p.x1, p.y1>>,
               <<"C", RAdd(p.x1, offset), p.y1, RSub(p.x2, offset), p.y2,
                 p.x2, p.y2>> >>
    ELSE curvedPath(<< <<"M", p.x1, p.y1>>, <<"L", xMiddle, p.y1>>,
                       <<"L", xMiddle, p.y2>>, <<"L", p.x2, p.y2>> >>,
                    linkOptions.radius)

\* The fields translateLink leaves on the link, `link` being the fields it
\* had; fromShape and toShape are fromNode.shapeArgs and toNode.shapeArgs.
translateLink(link, fromShape, toShape, ownType) ==
    LET linkWidth == linkOptions.lineWidth
        crisp == crispOf(linkWidth)
        factor == linkFactor
        type == linkType(ownType)
    IN IF fromShape # NoShape /\ toShape # NoShape
       THEN
        LET p == connectionPoints(fromShape, toShape, crisp)
            xMiddle == linkMiddle(p.x1, p.x2, crisp)
            dlBox == [x |-> RDiv(RAdd(p.x1, p.x2), RInt(2)),
                      y |-> RDiv(RAdd(p.y1, p.y2), RInt(2)),
                      height |-> linkWidth, width |-> 0]
        IN [plotX |-> xMiddle,
            plotY |-> RDiv(RAdd(p.y1, p.y2), RInt(2)),
            shapeType |-> "path",
            shapeArgs |-> [d |-> linkPath(type, p, xMiddle, factor)],
            dlBox |-> dlBox,
            tooltipPos |-> IF inverted
                           THEN <<RSub(RInt(plotSizeY), dlBox.y),
                                  RSub(RInt(plotSizeX), dlBox.x)>>
                           ELSE <<dlBox.x, dlBox.y>>]
       ELSE link

\* -------------------------------------------------- inputs of SpecLinks
\* The abstract position of a point: the column of its depth in the tree,
\* the row of its rank among the points of that depth.
Depth(p) == Cardinality(AncestorsOf(p))
Rank(p) == Cardinality({q \in Nodes : q < p /\ Depth(q) = Depth(p)})

\* point.options.marker of a point that sets none.
NoMarkerOptions ==
    [symbol |-> "undefined", radius |-> Undefined, width |-> Undefined,
     height |-> Undefined, lineWidth |-> Undefined]

\* series.options.link: lineWidth, offset (no default), type, radius.
LinkTypes == {"straight", "curved", "default"}
LinkOptionChoices ==
    { [lineWidth |-> <<1, 1>>, offset |-> UndefinedNumber, type |-> t,
       radius |-> 10] : t \in LinkTypes }
    \cup { [lineWidth |-> <<3, 2>>, offset |-> <<1, 4>>, type |-> t,
            radius |-> 0] : t \in LinkTypes }

\* link.options.link.type per point: every third point sets none, the
\* others 'straight' or 'curved'.
OwnTypeChoices ==
    { [i \in Nodes |-> IF i % 3 = 1 THEN "undefined"
                       ELSE IF i % 3 = 2 THEN "straight" ELSE "curved"] }

\* link.options.link.lineWidth per point: the points 3 and 6 set 2, the
\* others none.
OwnWidthChoices ==
    { [i \in Nodes |-> IF i % 3 = 0 THEN <<2, 1>> ELSE UndefinedNumber] }

\* levels[].link.lineWidth and levels[].states.hover.link.lineWidth per
\* level: the third level sets 3, and 4 while hovered.
MaxLevel == NumNodes
LevelWidthChoices ==
    { [l \in 0..MaxLevel |->
          IF l = 3 THEN [normal |-> <<3, 1>>, hover |-> <<4, 1>>]
          ELSE [normal |-> UndefinedNumber, hover |-> UndefinedNumber]] }

\* The points whose object carries no shapeArgs when the links of a pass
\* are translated: none, or the second point.
UnplacedChoices == {{}, {2}}

NoPath == <<>>

InitLinks ==
    /\ StructIdle
    /\ RestIdle
    /\ parent \in Shapes
    /\ collapsed = [p \in Nodes |-> FALSE]
    /\ hidden = [p \in Nodes |-> FALSE]
    /\ links = <<>>
    /\ linkToParent = [p \in Nodes |-> FALSE]
    /\ linkIndex = [p \in Nodes |-> 0]
    /\ laidOut = FALSE
    /\ lastClick = 0
    /\ prevClick = 0
    /\ pre = [collapsed |-> collapsed, hidden |-> hidden]
    /\ pre2 = pre
    /\ \E a \in MarkerChoices :
           points = [i \in Nodes |->
                        [xPosition |-> Depth(i), yPosition |-> Rank(i),
                         marker |-> IF i % 2 = 0 THEN a
                                    ELSE NoMarkerOptions]]
    /\ plotSizeX = 100
    /\ plotSizeY = 60
    /\ inverted \in BOOLEAN
    /\ reversed \in BOOLEAN
    /\ pc = "dirty"
    /\ nodeSize = <<>>
    /\ layoutModifier = <<>>
    /\ shapeArgs = [i \in Nodes |-> NoShape]
    /\ linkOptions \in LinkOptionChoices
    /\ ownLinkType \in OwnTypeChoices
    /\ ownLinkWidth \in OwnWidthChoices
    /\ levelLinkWidth \in LevelWidthChoices
    /\ unplaced = {}
    /\ linkGeometry = [i \in Nodes |-> NoGeometry]
    /\ drawn = [i \in Nodes |-> NoPath]
    /\ passSize = <<0, 0>>
    /\ repeated = FALSE

\* ------------------------------------------------- actions of SpecLinks
\* fromNode.shapeArgs / toNode.shapeArgs as translateLink reads them.
shapeSeen(n) == IF n \in unplaced' THEN NoShape ELSE shapeArgs'[n]

\* translate(): getLinks, getLayoutModifiers, translateNode on every point,
\* then translateLink on point.linkToParent of every point that has one.
TranslatePass ==
    /\ pc = "dirty"
    /\ pc' = "translated"
    /\ translateLinks
    /\ translateNodes
    /\ \E u \in UnplacedChoices : unplaced' = u
    /\ linkGeometry' =
           [c \in Nodes |->
               IF linkToParent'[c]
               THEN translateLink(IF linkToParent[c] THEN linkGeometry[c]
                                  ELSE NoGeometry,
                                  shapeSeen(parent[c]), shapeSeen(c),
                                  ownLinkType[c])
               ELSE NoGeometry]
    /\ passSize' = <<plotSizeX, plotSizeY>>
    /\ repeated' = (laidOut /\ passSize = <<plotSizeX, plotSizeY>>
                        /\ unplaced' = unplaced)
    /\ UNCHANGED <<parent, collapsed, hidden, lastClick, prevClick, pre, pre2,
                   points, plotSizeX, plotSizeY, inverted, reversed,
                   linkOptions, ownLinkType, ownLinkWidth, levelLinkWidth,
                   drawn, structVars, restVars>>

\* drawPoints(): the nodes, then ColumnSeries.prototype.drawPoints with
\* this.points = this.links: every link of the list that has a path.
DrawPoints ==
    /\ pc = "translated"
    /\ pc' = "drawn"
    /\ drawn' = [c \in Nodes |->
                    IF c \in {links[i] : i \in 1..Len(links)}
                       /\ linkGeometry[c] # NoGeometry
                    THEN linkGeometry[c].shapeArgs.d
                    ELSE NoPath]
    /\ UNCHANGED <<treeVars, points, plotSizeX, plotSizeY, inverted, reversed,
                   nodeSize, layoutModifier, shapeArgs, linkOptions,
                   ownLinkType, ownLinkWidth, levelLinkWidth, unplaced,
                   linkGeometry, passSize, repeated, structVars, restVars>>

\* The chart is resized and redrawn.
ResizeDrawn ==
    /\ pc = "drawn"
    /\ \E size \in PlotSizes :
           /\ <<plotSizeX, plotSizeY>> # size
           /\ plotSizeX' = size[1]
           /\ plotSizeY' = size[2]
    /\ pc' = "dirty"
    /\ UNCHANGED <<treeVars, points, inverted, reversed, nodeSize,
                   layoutModifier, shapeArgs, linkVars, structVars, restVars>>

\* A redraw with nothing changed.
Redraw ==
    /\ pc = "drawn"
    /\ pc' = "dirty"
    /\ UNCHANGED <<treeVars, points, plotSizeX, plotSizeY, inverted, reversed,
                   nodeSize, layoutModifier, shapeArgs, linkVars, structVars,
                   restVars>>

NextLinks ==
    \/ TranslatePass
    \/ DrawPoints
    \/ ResizeDrawn
    \/ Redraw

SpecLinks == InitLinks /\ [][NextLinks]_vars

\* ------------------------------------------------- link geometry: claims
\* The links the latest pass translated: both endpoints carried shapeArgs.
TranslatedLinks ==
    {c \in InList(links) : c \notin unplaced /\ parent[c] \notin unplaced}

FromBox(c) == shapeArgs[parent[c]]
ToBox(c) == shapeArgs[c]
TypeOf(c) == pickType(ownLinkType[c], linkOptions.type)
PathOf(c) == linkGeometry[c].shapeArgs.d

\* The commands the path starts from: the path itself, or the waypoints
\* handed to curvedPath.
Waypoints(c) ==
    IF TypeOf(c) \in {"straight", "curved"} THEN PathOf(c)
    ELSE PathOf(c).curvedPath

\* The point a command ends at; the point the path leaves from / arrives at.
EndOf(cmd) == <<cmd[Len(cmd) - 1], cmd[Len(cmd)]>>
ExitPoint(c) == EndOf(Waypoints(c)[1])
EntryPoint(c) == EndOf(Waypoints(c)[Len(Waypoints(c))])

\* A coordinate on the pixel grid of the link's stroke.
Snap(v) == RAdd(MathFloor(v), crispOf(linkOptions.lineWidth))
MidY(box) == RAdd(box.y, Half(box.height))
RightX(box) == RAdd(box.x, RInt(box.width))

\* C13: the link leaves from the middle of the right edge of fromNode's box
\* and arrives at the middle of the left edge of toNode's box; in an
\* inverted chart it leaves from the middle of fromNode's left edge and
\* arrives at the middle of toNode's right edge (each coordinate on the
\* pixel grid of the stroke).
C13_ConnectionPoints ==
    \A c \in TranslatedLinks :
        /\ ExitPoint(c)[2] = Snap(MidY(FromBox(c)))
        /\ EntryPoint(c)[2] = Snap(MidY(ToBox(c)))
        /\ ExitPoint(c)[1] = IF inverted THEN Snap(FromBox(c).x)
                             ELSE Snap(RightX(FromBox(c)))
        /\ EntryPoint(c)[1] = IF inverted THEN Snap(RightX(ToBox(c)))
                              ELSE Snap(ToBox(c).x)

\* An inverted chart with a translated link between boxes of non-zero
\* width that do not sit on whole pixels.
C13_Witness ==
    /\ inverted
    /\ \E c \in TranslatedLinks :
           /\ FromBox(c).width > 0 /\ ToBox(c).width > 0
           /\ MathFloor(FromBox(c).x) # FromBox(c).x
           /\ ExitPoint(c)[1] # EntryPoint(c)[1]

\* The connection points as the boxes give them.
BoxExit(c) ==
    <<IF inverted THEN Snap(FromBox(c).x) ELSE Snap(RightX(FromBox(c))),
      Snap(MidY(FromBox(c)))>>
BoxEntry(c) ==
    <<IF inverted THEN Snap(RightX(ToBox(c))) ELSE Snap(ToBox(c).x),
      Snap(MidY(ToBox(c)))>>

\* C14: a link whose type (its own option if defined, else the series
\* option) is 'straight' has a path of exactly two commands, a Move to the
\* exit point of fromNode and a Line to the entry point of toNode.
C14_StraightPath ==
    \A c \in TranslatedLinks :
        TypeOf(c) = "straight" =>
            PathOf(c) = << <<"M", BoxExit(c)[1], BoxExit(c)[2]>>,
                           <<"L", BoxEntry(c)[1], BoxEntry(c)[2]>> >>

\* A translated link that is straight by its own option, against the series
\* type 'default' that its parent's link takes, next to a curved one.
C14_Witness ==
    \E c, e \in TranslatedLinks :
        /\ ownLinkType[c] = "straight" /\ ownLinkType[e] = "curved"
        /\ ownLinkType[parent[c]] = "undefined"
        /\ linkOptions.type = "default"
        /\ BoxExit(c) # BoxEntry(c)
        /\ Len(PathOf(c)) = 2

\* The offset factor: link.offset of the series, 0.5 when it is not set.
Factor ==
    IF linkOptions.offset = UndefinedNumber THEN Half(1)
    ELSE linkOptions.offset

\* d = |x2 - x1| * offsetFactor, negated when the chart is inverted.
ControlOffset(c) ==
    LET d == RMul(MathAbs(RSub(BoxEntry(c)[1], BoxExit(c)[1])), Factor)
    IN IF inverted THEN RNeg(d) ELSE d

\* The path of a curved link: Move to (x1, y1), cubic curve to (x2, y2) with
\* the control points (x1 + d, y1) and (x2 - d, y2).
CurvedPathOK(c) ==
    PathOf(c) = << <<"M", BoxExit(c)[1], BoxExit(c)[2]>>,
                   <<"C", RAdd(BoxExit(c)[1], ControlOffset(c)), BoxExit(c)[2],
                     RSub(BoxEntry(c)[1], ControlOffset(c)), BoxEntry(c)[2],
                     BoxEntry(c)[1], BoxEntry(c)[2]>> >>

Between(v, a, b) ==
    \/ RLeq(a, v) /\ RLeq(v, b)
    \/ RLeq(b, v) /\ RLeq(v, a)

\* With 0 < offsetFactor < 1 the x of both control points lies between x1
\* and x2.
ControlsBetween(c) ==
    (RLeq(RInt(0), Factor) /\ Factor # RInt(0)
     /\ RLeq(Factor, RInt(1)) /\ Factor # RInt(1))
    => /\ Between(PathOf(c)[2][2], BoxExit(c)[1], BoxEntry(c)[1])
       /\ Between(PathOf(c)[2][4], BoxExit(c)[1], BoxEntry(c)[1])

\* The entry point lies on the side of the exit point the link runs to: at
\* or right of it, at or left of it in an inverted chart.
RunsForward(c) ==
    IF inverted THEN RLeq(BoxEntry(c)[1], BoxExit(c)[1])
    ELSE RLeq(BoxExit(c)[1], BoxEntry(c)[1])

\* C15 as stated: a curved link has the path Move (x1, y1), curve to
\* (x2, y2) through (x1 + d, y1) and (x2 - d, y2), d = |x2 - x1| * offsetFactor
\* (0.5 by default, negated when inverted), and for 0 < offsetFactor < 1 both
\* control points' x lie between x1 and x2.
C15_CurvedPathMonotonic ==
    \A c \in TranslatedLinks :
        TypeOf(c) = "curved" => CurvedPathOK(c) /\ ControlsBetween(c)

\* C15 amended: the same path; both control points' x lie between x1 and x2
\* when 0 < offsetFactor < 1 and the entry point is not behind the exit
\* point (x1 <= x2, or x2 <= x1 in an inverted chart).
C15_CurvedPathForward ==
    \A c \in TranslatedLinks :
        TypeOf(c) = "curved" =>
            /\ CurvedPathOK(c)
            /\ RunsForward(c) => ControlsBetween(c)

\* A curved link of an inverted chart that runs forward over a distance,
\* with the default factor.
C15_Witness ==
    \E c \in TranslatedLinks :
        /\ TypeOf(c) = "curved"
        /\ inverted
        /\ linkOptions.offset = UndefinedNumber
        /\ RunsForward(c)
        /\ BoxExit(c)[1] # BoxEntry(c)[1]
        /\ PathOf(c)[2][2] # BoxExit(c)[1]

\* The midline of an orthogonal link: the midpoint of x1 and x2 on the pixel
\* grid of the stroke. x is the axis the levels run along, horizontal on
\* screen in a plain chart and vertical in an inverted one.
Midline(c) == Snap(RDiv(RAdd(BoxExit(c)[1], BoxEntry(c)[1]), RInt(2)))

\* C16: a link whose type is neither 'straight' nor 'curved' has the path
\* built from the waypoints (x1, y1), (m, y1), (m, y2), (x2, y2) and the
\* link radius of the series, m being the midpoint between the connection
\* points along the axis of the levels.
C16_OrthogonalPath ==
    \A c \in TranslatedLinks :
        TypeOf(c) \notin {"straight", "curved"} =>
            PathOf(c) =
                curvedPath(<< <<"M", BoxExit(c)[1], BoxExit(c)[2]>>,
                              <<"L", Midline(c), BoxExit(c)[2]>>,
                              <<"L", Midline(c), BoxEntry(c)[2]>>,
                              <<"L", BoxEntry(c)[1], BoxEntry(c)[2]>> >>,
                           linkOptions.radius)

\* An orthogonal link of an inverted chart whose ends differ on both axes.
C16_Witness ==
    \E c \in TranslatedLinks :
        /\ TypeOf(c) = "default"
        /\ inverted
        /\ BoxExit(c)[1] # BoxEntry(c)[1]
        /\ BoxExit(c)[2] # BoxEntry(c)[2]
        /\ Midline(c) # BoxExit(c)[1]
        /\ PathOf(c).r = 10

\* ------------------------------------------------------ the pass: claims
\* A link one of whose endpoints carried no shapeArgs in the latest pass.
Unplaced(c) == c \in unplaced \/ parent[c] \in unplaced

C18_PassIdempotent ==
    [][(/\ pc = "dirty" /\ pc' = "translated"
        /\ laidOut
        /\ passSize = <<plotSizeX, plotSizeY>>
        /\ unplaced' = unplaced)
       => /\ layoutModifier' = layoutModifier
          /\ shapeArgs' = shapeArgs
          /\ nodeSize' = nodeSize
          /\ links' = links
          /\ linkIndex' = linkIndex
          /\ linkGeometry' = linkGeometry]_vars

\* A second pass on unchanged inputs has run and translated links of all
\* three types.
C18_Witness ==
    /\ repeated
    /\ pc = "translated"
    /\ \A t \in LinkTypes : \E c \in TranslatedLinks : TypeOf(c) = t

\* ======================================================================
\* buildTree: the levels of the nodes
\* ======================================================================
\* The tree root is the node of id '' (NoParent): getTree builds it with
\* index -1, which has no point, and level 0.
TreeNodes == {NoParent} \cup Nodes

\* point.level as the data may give it.
LevelChoices == {Undefined, 0, 3}

\* Mutant: the level of the point is not read.
ownLevelIgnored(own, level) == level

\* (point && point.level) || level
ownLevelOr(own, level) ==
    IF own # Undefined /\ own # 0 THEN own ELSE level

\* TreegraphSeries.buildTree(id, index, level, list, parent): the level is
\* replaced by the point's own, then TreemapSeries.buildTree runs: it calls
\* this.buildTree with level + 1 for every child and gives the node its
\* level. acc maps the nodes built so far to their level.
RECURSIVE buildTree(_, _, _)
RECURSIVE superBuildTree(_, _, _)
RECURSIVE buildChildren(_, _, _)
buildTree(acc, id, level) ==
    superBuildTree(acc, id,
                   IF id = NoParent THEN level
                   ELSE ownLevelOr(pointLevel[id], level))

superBuildTree(acc, id, level) ==
    [buildChildren(acc, Children(id), level + 1) EXCEPT ![id] = level]

buildChildren(acc, kids, level) ==
    IF kids = <<>> THEN acc
    ELSE buildChildren(buildTree(acc, Head(kids), level), Tail(kids), level)

\* getTree(): the tree of the pass, built from the root with level 0.
getTree == buildTree([n \in TreeNodes |-> Undefined], NoParent, 0)

InitTree ==
    /\ PassIdle
    /\ LinkIdle
    /\ RestIdle
    /\ parent \in Shapes
    /\ collapsed = [p \in Nodes |-> FALSE]
    /\ hidden = [p \in Nodes |-> FALSE]
    /\ links = <<>>
    /\ linkToParent = [p \in Nodes |-> FALSE]
    /\ linkIndex = [p \in Nodes |-> 0]
    /\ laidOut = FALSE
    /\ lastClick = 0
    /\ prevClick = 0
    /\ pre = [collapsed |-> collapsed, hidden |-> hidden]
    /\ pre2 = pre
    /\ pointLevel = [p \in Nodes |-> Undefined]
    /\ nodeLevel = [n \in TreeNodes |-> Undefined]
    /\ position = <<>>

\* The data gives a point a level of its own, or takes it away.
SetLevel(p, level) ==
    /\ pointLevel[p] # level
    /\ pointLevel' = [pointLevel EXCEPT ![p] = level]
    /\ nodeLevel' = [n \in TreeNodes |-> Undefined]
    /\ UNCHANGED <<treeVars, passVars, linkVars, position, restVars>>

\* translate(): tree = series.tree = series.getTree()
BuildTree ==
    /\ nodeLevel' = getTree
    /\ UNCHANGED <<treeVars, passVars, linkVars, pointLevel, position, restVars>>

NextTree ==
    \/ \E p \in Nodes, level \in LevelChoices : SetLevel(p, level)
    \/ BuildTree

SpecTree == InitTree /\ [][NextTree]_vars

\* ----------------------------------------------------- levels: the claims
Built == nodeLevel[NoParent] # Undefined

\* The level the node of a point takes from its parent.
LevelFromParent(p) == nodeLevel[parent[p]] + 1

\* C19 as stated: in every tree built the root has level 0 and every other
\* node has the level of its parent + 1, whether or not its point carries
\* a level of its own.
C19_LevelIsParentPlusOne ==
    Built =>
        /\ nodeLevel[NoParent] = 0
        /\ \A p \in Nodes : nodeLevel[p] = LevelFromParent(p)

\* C19 amended: the root has level 0; a node whose point carries a non-zero
\* level of its own has that level, every other node the level of its
\* parent + 1.
C19_LevelOwnOrParentPlusOne ==
    Built =>
        /\ nodeLevel[NoParent] = 0
        /\ \A p \in Nodes :
               nodeLevel[p] = IF pointLevel[p] \notin {Undefined, 0}
                              THEN pointLevel[p]
                              ELSE LevelFromParent(p)

\* A built tree in which a point with a level of its own that its place in
\* the tree would not give has a child without one.
C19_Witness ==
    /\ Built
    /\ \E p, q \in Nodes :
           /\ parent[q] = p
           /\ pointLevel[p] = 3 /\ LevelFromParent(p) # 3
           /\ pointLevel[q] \in {Undefined, 0}
           /\ nodeLevel[q] = 4

\* ======================================================================
\* calculatePositions: the layout (spec section 4.2; the layout class is
\* not part of src/unnamed)
\* ======================================================================
RMaxOf(set) == CHOOSE v \in set : \A w \in set : RLeq(w, v)
RMinOf(set) == CHOOSE v \in set : \A w \in set : RLeq(v, w)

\* The children the layout descends into: a collapsed node is a leaf.
LaidOutChildren(node) == IF collapsed[node] THEN <<>> ELSE Children(node)

\* The rightmost / leftmost position a placement f has at depth d.
RightAt(f, d) == RMaxOf({f[n] : n \in {m \in DOMAIN f : Depth(m) = d}})
LeftAt(f, d) == RMinOf({f[n] : n \in {m \in DOMAIN f : Depth(m) = d}})
DepthsOf(f) == {Depth(n) : n \in DOMAIN f}

\* Mutant: a subtree is only kept clear of the root of its previous sibling.
subtreeShiftRootsOnly(forest, sub, kid) ==
    RSub(RAdd(RightAt(forest, Depth(kid)), RInt(1)), sub[kid])

\* The least shift that keeps the subtree `sub` of `kid` 1 unit clear of the
\* subtrees placed before it, at every depth they share.
subtreeShift(forest, sub, kid) ==
    RMaxOf({RSub(RAdd(RightAt(forest, d), RInt(1)), LeftAt(sub, d)) :
               d \in DepthsOf(forest) \cap DepthsOf(sub)})

RECURSIVE SumOver(_, _)
SumOver(f, kids) ==
    IF kids = <<>> THEN RInt(0)
    ELSE RAdd(f[Head(kids)], SumOver(f, Tail(kids)))

\* Mutant: a node is centred between its first and its last child.
centreOfEnds(placed, kids) ==
    RDiv(RAdd(placed[kids[1]], placed[kids[Len(kids)]]), RInt(2))

\* The mean of the positions of the children.
centreOf(placed, kids) == RDiv(SumOver(placed, kids), RInt(Len(kids)))

\* The placement of the subtree of a node, relative to its first leaf: a
\* leaf at 0, the subtrees of the children side by side, the node at the
\* mean of its children.
RECURSIVE placeSubtree(_)
RECURSIVE placeChildren(_, _)
placeSubtree(node) ==
    LET kids == LaidOutChildren(node)
    IN IF kids = <<>> THEN (node :> RInt(0))
       ELSE LET placed == placeChildren(<<>>, kids)
            IN (node :> centreOf(placed, kids)) @@ placed

placeChildren(forest, kids) ==
    IF kids = <<>> THEN forest
    ELSE LET kid == Head(kids)
             sub == placeSubtree(kid)
             shift == IF DOMAIN forest = {} THEN RInt(0)
                      ELSE subtreeShift(forest, sub, kid)
         IN placeChildren(forest @@ [n \in DOMAIN sub |-> RAdd(sub[n], shift)],
                          Tail(kids))

\* The position of every node: UndefinedNumber for a node below a collapsed
\* one, which the layout does not reach.
calculatePositions ==
    LET placed == placeSubtree(1)
    IN [n \in Nodes |-> IF n \in DOMAIN placed THEN placed[n]
                        ELSE UndefinedNumber]

\* The parent relations of the layout: every point has the point before it
\* or the one before that as its parent; the shapes of Spec; and a root with
\* three children whose subtrees differ in width.
BushParent ==
    [i \in Nodes |-> IF i = 1 THEN NoParent
                     ELSE IF i <= 4 THEN 1 ELSE IF i <= 6 THEN 2 ELSE 3]

LayoutShapes ==
    Shapes \cup {BushParent} \cup
    { [i \in Nodes |-> IF i = 1 THEN NoParent
                       ELSE IF i = 2 THEN 1 ELSE i - 1 - b[i]] :
          b \in [Nodes -> {0, 1}] }

InitLayout ==
    /\ PassIdle
    /\ LinkIdle
    /\ RestIdle
    /\ parent \in LayoutShapes
    /\ collapsed = [p \in Nodes |-> FALSE]
    /\ hidden = [p \in Nodes |-> FALSE]
    /\ links = <<>>
    /\ linkToParent = [p \in Nodes |-> FALSE]
    /\ linkIndex = [p \in Nodes |-> 0]
    /\ laidOut = FALSE
    /\ lastClick = 0
    /\ prevClick = 0
    /\ pre = [collapsed |-> collapsed, hidden |-> hidden]
    /\ pre2 = pre
    /\ pointLevel = <<>>
    /\ nodeLevel = <<>>
    /\ position = <<>>

\* A point is collapsed or expanded; the positions are those of no pass.
SetCollapsed(p) ==
    /\ collapsed' = toggleCollapsed(collapsed, p)
    /\ position' = <<>>
    /\ UNCHANGED <<parent, hidden, links, linkToParent, linkIndex, laidOut,
                   lastClick, prevClick, pre, pre2, passVars, linkVars,
                   pointLevel, nodeLevel, restVars>>

\* translate(): this.layoutAlgorythm.calculatePositions(series)
CalculatePositions ==
    /\ position = <<>>
    /\ position' = calculatePositions
    /\ UNCHANGED <<treeVars, passVars, linkVars, pointLevel, nodeLevel, restVars>>

NextLayout ==
    \/ \E p \in Nodes : SetCollapsed(p)
    \/ CalculatePositions

SpecLayout == InitLayout /\ [][NextLayout]_vars

\* ----------------------------------------------------- layout: the claims
Positioned == position # <<>>
Placed == {n \in Nodes : position[n] # UndefinedNumber}

\* The root has exactly two children and both are laid out as leaves.
RootWithTwoLeaves ==
    /\ Len(LaidOutChildren(1)) = 2
    /\ \A k \in {2, 3} : parent[k] = 1 /\ LaidOutChildren(k) = <<>>

C21_ParentAtMeanOfChildren ==
    Positioned =>
        \A n \in Placed :
            LET kids == LaidOutChildren(n)
            IN kids # <<>> =>
                   RMul(position[n], RInt(Len(kids))) = SumOver(position, kids)

\* A node with three laid-out children that are not evenly spaced, the
\* subtree of one of which was shifted.
C21_Witness ==
    /\ Positioned
    /\ \E n \in Placed :
           LET kids == LaidOutChildren(n)
           IN /\ Len(kids) = 3
              /\ RSub(position[kids[2]], position[kids[1]])
                     # RSub(position[kids[3]], position[kids[2]])
              /\ LaidOutChildren(kids[2]) # <<>>

\* ------------------------------------------------------ the scan: claims
\* The visual size of point i on an axis: node size plus marker line width.
VisualX(i) == nodeSize[i].x + OrZero(markerOptions(points[i]).lineWidth)
VisualY(i) == nodeSize[i].y + OrZero(markerOptions(points[i]).lineWidth)

\* The points whose coordinate is the given extreme of an axis.
AtX(v) == {i \in 1..Len(points) : points[i].xPosition = v}
AtY(v) == {i \in 1..Len(points) : points[i].yPosition = v}

\* C22: the size the scan keeps for the minimum (maximum) of an axis is the
\* largest visual size among exactly the nodes at that minimum (maximum);
\* a node that is not at the extreme never contributes.
C22_SizesOfExtremeNodes ==
    Translated =>
        LET s == scan(points)
        IN /\ s.minXSize = MaxOf({VisualX(i) : i \in AtX(MinOf(XPositions))})
           /\ s.maxXSize = MaxOf({VisualX(i) : i \in AtX(MaxOf(XPositions))})
           /\ s.minYSize = MaxOf({VisualY(i) : i \in AtY(MinOf(YPositions))})
           /\ s.maxYSize = MaxOf({VisualY(i) : i \in AtY(MaxOf(YPositions))})

\* ------------------------------------------------------------ claim C23
\* The part of a coordinate above its integer pixel.
Frac(v) == RSub(v, MathFloor(v))

\* The coordinates of the connection points of a link, and of its midline
\* when its path has one.
LinkCoordinates(c) ==
    {ExitPoint(c)[1], ExitPoint(c)[2], EntryPoint(c)[1], EntryPoint(c)[2]}
    \cup (IF TypeOf(c) \in {"straight", "curved"} THEN {}
          ELSE {EndOf(Waypoints(c)[2])[1], EndOf(Waypoints(c)[3])[1]})

\* The stroke width a link is drawn with outside any state.
StrokeWidth(c) == linkStrokeWidth(c, "undefined")
WholeStroke(c) == StrokeWidth(c)[2] = 1

\* C23: every coordinate of a link's connection points and midline lies
\* half a pixel above an integer pixel when the stroke width the link is
\* drawn with is odd, and on an integer pixel when it is even, in inverted
\* and non-inverted charts alike.
C23_CrispFollowsStrokeWidth ==
    pc = "drawn" =>
        \A c \in TranslatedLinks :
            WholeStroke(c) =>
                \A v \in LinkCoordinates(c) :
                    Frac(v) = Half(StrokeWidth(c)[1] % 2)

\* =========================================================================
\* SpecLifecycle: the links of a dataset whose points are updated, re-rooted
\* and removed between layout passes. A link object is known by its place in
\* linkStore; point.linkToParent holds that place.
\* =========================================================================
DataSize == 3
MaxLinks == 4
DataPoints == 1..DataSize
NoLink == 0

\* new series.LinkClass().init(series, point.options, void 0, point)
newLink(point) ==
    [toNode |-> point, updated |-> FALSE, index |-> Undefined,
     destroyed |-> FALSE]

\* link.destroy(): the object keeps none of its properties.
destroyedLink ==
    [toNode |-> NoLink, updated |-> FALSE, index |-> Undefined,
     destroyed |-> TRUE]

\* Mutant: the length push() returns is kept as the index.
pushedLength(list) == Len(list)

\* links.push(point.linkToParent) - 1, `list` being links after the push.
pushedIndex(list) == Len(list) - 1

\* array.splice(start): the array keeps its first `start` elements.
splice(list, start) ==
    SubSeq(list, 1, IF start < Len(list) THEN start ELSE Len(list))

\* Mutant: a point that has a link gets a new link object in every pass.
linkOfPointAlwaysNew(acc, point) ==
    [acc EXCEPT !.store = Append(acc.store, newLink(point)),
                !.object[point] = Len(acc.store) + 1]

\* The if (!point.linkToParent) ... else ... of a point whose node has a
\* parent: a new link, or point.linkToParent.update(point.options, false).
linkOfPoint(acc, point) ==
    IF acc.object[point] = NoLink
    THEN [acc EXCEPT !.store = Append(acc.store, newLink(point)),
                     !.object[point] = Len(acc.store) + 1]
    ELSE [acc EXCEPT !.store[acc.object[point]].updated = TRUE]

\* One iteration of this.data.forEach in getLinks, on the link objects.
\* acc.links is the local list, acc.old is series.links, acc.object is
\* point.linkToParent per point, acc.store holds the link objects.
linkStep(acc, point) ==
    IF hasParent[point]
    THEN LET made == linkOfPoint(acc, point)
             link == made.object[point]
             pushed == Append(made.links, link)
         IN [made EXCEPT !.links = pushed,
                         !.store[link].index = pushedIndex(pushed)]
    ELSE IF acc.object[point] # NoLink
    THEN [acc EXCEPT
             !.old = splice(acc.old, acc.store[acc.object[point]].index),
             !.store[acc.object[point]] = destroyedLink,
             !.object[point] = NoLink]
    ELSE acc

RECURSIVE linkSteps(_, _)
linkSteps(acc, i) ==
    IF i > Len(data) THEN acc
    ELSE linkSteps(linkStep(acc, data[i]), i + 1)

\* getLinks() on the points of series.data.
getLinksOfData ==
    linkSteps([links |-> <<>>, old |-> seriesLinks, object |-> linkObject,
               store |-> linkStore], 1)

\* The links getLinks would make in the next pass.
LinksToMake ==
    Cardinality({i \in 1..Len(data) :
                    hasParent[data[i]] /\ linkObject[data[i]] = NoLink})

InitLifecycle ==
    /\ AttribIdle
    /\ DrawIdle
    /\ SidebarIdle
    /\ TreeIdle
    /\ PassIdle
    /\ LinkIdle
    /\ StructIdle
    /\ data = [i \in DataPoints |-> i]
    /\ hasParent \in [DataPoints -> BOOLEAN]
    /\ linkObject = [p \in DataPoints |-> NoLink]
    /\ linkStore = <<>>
    /\ seriesLinks = <<>>
    /\ lastOp = "init"

\* translate(): this.links = this.getLinks().
LinkPass ==
    /\ Len(linkStore) + LinksToMake <= MaxLinks
    /\ LET got == getLinksOfData
       IN /\ seriesLinks' = got.links
          /\ linkObject' = got.object
          /\ linkStore' = got.store
    /\ lastOp' = "pass"
    /\ UNCHANGED <<treeVars, passVars, linkVars, structVars, attribVars,
                   drawVars, sidebarVars, data, hasParent>>

\* point.update({ parent }): a point of the dataset is given a parent, or
\* loses it, in the tree built next.
UpdatePoint(p) ==
    /\ \E i \in 1..Len(data) : data[i] = p
    /\ hasParent' = [hasParent EXCEPT ![p] = ~hasParent[p]]
    /\ lastOp' = "update"
    /\ UNCHANGED <<treeVars, passVars, linkVars, structVars, attribVars,
                   drawVars, sidebarVars, data, linkObject, linkStore,
                   seriesLinks>>

\* point.remove(): the point leaves series.data and is destroyed, its link
\* to its parent with it.
RemovePoint(p) ==
    /\ \E i \in 1..Len(data) : data[i] = p
    /\ data' = SelectSeq(data, LAMBDA q : q # p)
    /\ IF linkObject[p] # NoLink
       THEN /\ linkStore' = [linkStore EXCEPT ![linkObject[p]] = destroyedLink]
            /\ linkObject' = [linkObject EXCEPT ![p] = NoLink]
       ELSE UNCHANGED <<linkStore, linkObject>>
    /\ lastOp' = "remove"
    /\ UNCHANGED <<treeVars, passVars, linkVars, structVars, attribVars,
                   drawVars, sidebarVars, hasParent, seriesLinks>>

NextLifecycle ==
    \/ LinkPass
    \/ \E p \in DataPoints : UpdatePoint(p)
    \/ \E p \in DataPoints : RemovePoint(p)

SpecLifecycle == InitLifecycle /\ [][NextLifecycle]_vars

\* ------------------------------------------------------------ claim C24
InData(p) == \E i \in 1..Len(data) : data[i] = p
Live(store) == {l \in 1..Len(store) : ~store[l].destroyed}
LinksTo(store, p) == {l \in Live(store) : store[l].toNode = p}

\* C24: in a layout pass a point in the dataset whose node has a parent
\* gets a new link if it has none and otherwise keeps its link object,
\* which is updated; the link of a point whose node has no parent,
\* or that has left the dataset, is destroyed and detached by the end of
\* the pass; no point ever has two links.
C24_LinkLifecycle ==
    [][lastOp' = "pass" =>
          \A p \in DataPoints :
              /\ Cardinality(LinksTo(linkStore', p)) <= 1
              /\ InData(p) /\ hasParent[p] =>
                     /\ linkObject'[p] \in LinksTo(linkStore', p)
                     /\ IF linkObject[p] # NoLink
                        THEN /\ linkObject'[p] = linkObject[p]
                             /\ linkStore'[linkObject'[p]].updated
                        ELSE linkObject'[p] > Len(linkStore)
              /\ ~(InData(p) /\ hasParent[p]) =>
                     /\ linkObject'[p] = NoLink
                     /\ LinksTo(linkStore', p) = {}]_vars

\* A pass has kept and updated the first link made, after a later link was
\* made, a link was destroyed for a point that lost its parent, and a point
\* was removed.
C24_Witness ==
    /\ lastOp = "pass"
    /\ Len(linkStore) >= 3
    /\ Len(data) < DataSize
    /\ \E p \in DataPoints : linkObject[p] = 1 /\ linkStore[1].updated
    /\ \E p \in DataPoints, l \in 1..Len(linkStore) :
           /\ InData(p) /\ ~hasParent[p]
           /\ linkStore[l].destroyed

\* ------------------------------------------------------------ claim C25
PlaceInData(p) == CHOOSE i \in 1..Len(data) : data[i] = p

\* C25: after getLinks the index of every link is its place (from 0) in
\* the list of the series, every link that is not destroyed is in the list
\* once, and the links follow the order of their points in the dataset.
C25_IndexIsPlaceInList ==
    lastOp = "pass" =>
        /\ \A i \in 1..Len(seriesLinks) :
               linkStore[seriesLinks[i]].index = i - 1
        /\ \A l \in Live(linkStore) :
               /\ linkStore[l].index \in 0..(Len(seriesLinks) - 1)
               /\ seriesLinks[linkStore[l].index + 1] = l
        /\ \A i, j \in 1..Len(seriesLinks) :
               i < j => PlaceInData(linkStore[seriesLinks[i]].toNode)
                            < PlaceInData(linkStore[seriesLinks[j]].toNode)

\* A pass has listed two links after a link before them in the list of the
\* pass before was destroyed.
C25_Witness ==
    /\ lastOp = "pass"
    /\ Len(seriesLinks) >= 2
    /\ \E l \in 1..Len(linkStore) :
           /\ linkStore[l].destroyed
           /\ l < seriesLinks[1]

\* =========================================================================
\* SpecAttribs: pointAttribs on one point, a link or a node, under every
\* combination of the options it resolves.
\* =========================================================================
\* What Series.prototype.pointAttribs returns: a fill, a stroke and a
\* stroke width, and no corner radius.
baseAttribs ==
    [fill |-> "fill", stroke |-> "stroke", strokeWidth |-> <<0, 1>>,
     r |-> Undefined]

NoAttribs == [none |-> TRUE]
PointStates == {"undefined", "hover"}

\* The options of one source: link.color and link.lineWidth set or not,
\* borderRadius one of `radii`.
OptionsOf(name, width, radii) ==
    [color : {"undefined", name}, lineWidth : {UndefinedNumber, width},
     borderRadius : radii]

\* The series always has link.color and link.lineWidth (its defaults).
SeriesOptionsChoices ==
    [color : {"series"}, lineWidth : {<<1, 1>>}, borderRadius : {Undefined, 0, 3}]

AttribInputs ==
    [isLink : BOOLEAN,
     hoverOptions : OptionsOf("hover", <<4, 1>>, {Undefined, 8}),
     options : OptionsOf("point", <<2, 1>>, {Undefined, 0, 5}),
     levelOptions : OptionsOf("level", <<3, 1>>, {Undefined, 6}),
     seriesOptions : SeriesOptionsChoices]

InitAttribs ==
    /\ TreeIdle
    /\ PassIdle
    /\ LinkIdle
    /\ StructIdle
    /\ LifeIdle
    /\ DrawIdle
    /\ SidebarIdle
    /\ attribInput \in AttribInputs
    /\ pointState = "undefined"
    /\ attribs = NoAttribs

\* The point is drawn: pointAttribs(point, state).
PointAttribs ==
    /\ attribs = NoAttribs
    /\ attribs' = pointAttribs(baseAttribs, attribInput, pointState)
    /\ UNCHANGED <<treeVars, passVars, linkVars, structVars, lifeVars,
                   drawVars, sidebarVars, attribInput, pointState>>

\* The point enters or leaves the hover state.
SetState(state) ==
    /\ state # pointState
    /\ pointState' = state
    /\ attribs' = NoAttribs
    /\ UNCHANGED <<treeVars, passVars, linkVars, structVars, lifeVars,
                   drawVars, sidebarVars, attribInput>>

NextAttribs ==
    \/ PointAttribs
    \/ \E state \in PointStates : SetState(state)

SpecAttribs == InitAttribs /\ [][NextAttribs]_vars

\* ------------------------------------------------------------ claim C26
\* The four sources in their order of precedence: the options of the state
\* (none outside a state), of the point, of the level and of the series.
Sources ==
    << IF pointState = "hover" THEN attribInput.hoverOptions ELSE NoOptions,
       attribInput.options, attribInput.levelOptions,
       attribInput.seriesOptions >>

ColorSet(i) == Sources[i].color # "undefined"
WidthSet(i) == Sources[i].lineWidth # UndefinedNumber
RadiusSet(i) == Sources[i].borderRadius # Undefined
FirstOf(S) == CHOOSE i \in S : \A k \in S : i <= k

\* C26: for a link the stroke is the link color, and the stroke width the
\* link line width, of the first source that sets it, each on its own, and
\* the fill is removed; for a node the corner radius is the border radius
\* of the first source that sets one, when that is not zero, and nothing
\* else changes.
C26_AttribsByPrecedence ==
    attribs # NoAttribs =>
        IF attribInput.isLink
        THEN /\ attribs.stroke = Sources[FirstOf({i \in 1..4 : ColorSet(i)})].color
             /\ attribs.strokeWidth =
                    Sources[FirstOf({i \in 1..4 : WidthSet(i)})].lineWidth
             /\ attribs.fill = "deleted"
             /\ attribs.r = baseAttribs.r
        ELSE LET set == {i \in 1..4 : RadiusSet(i)}
                 zero == set = {} \/ Sources[FirstOf(set)].borderRadius = 0
             IN /\ attribs.r = IF zero THEN baseAttribs.r
                               ELSE Sources[FirstOf(set)].borderRadius
                /\ attribs.fill = baseAttribs.fill
                /\ attribs.stroke = baseAttribs.stroke
                /\ attribs.strokeWidth = baseAttribs.strokeWidth

\* A hovered link whose color comes from the point and whose width comes
\* from the state, the level setting both.
C26_Witness ==
    /\ attribs # NoAttribs
    /\ attribInput.isLink
    /\ pointState = "hover"
    /\ ~ColorSet(1) /\ ColorSet(2) /\ ColorSet(3)
    /\ WidthSet(1) /\ WidthSet(2) /\ WidthSet(3)
    /\ attribs.stroke = "point"
    /\ attribs.strokeWidth = <<4, 1>>

\* ------------------------------------------------------------ claim C27
\* The geometry translateLink derives from the boxes the endpoints of the
\* link to point c hold.
FromBoxesOfPass(c) ==
    translateLink(NoGeometry, FromBox(c), ToBox(c), ownLinkType[c])

C28_HiddenIffAncestorCollapsed ==
    \A p \in Nodes :
        hidden[p] <=> (\E a \in AncestorsOf(p) : collapsed[a])

\* =========================================================================
\* SpecDraw: drawPoints and drawDataLabels, which hand the links to the
\* inherited draw methods by way of series.points.
\* =========================================================================
MaxDrawNodes == 3
MaxSeriesPoints == 7

NodePoint(i) == <<"node", i>>
LinkPoint(i) == <<"link", i>>

\* One dataLabels option: its textPath and its linkTextPath.
LabelOptions ==
    [textPath : {"undefined", "nodePath"},
     linkTextPath : {"undefined", "linkPath"}]

\* series.options.dataLabels: not set, one options object, or an array of
\* one or two.
LabelChoices ==
    {[set |-> FALSE, isArray |-> FALSE, list |-> <<>>]}
    \cup {[set |-> TRUE, isArray |-> FALSE, list |-> <<o>>] :
             o \in LabelOptions}
    \cup {[set |-> TRUE, isArray |-> TRUE, list |-> <<o, q>>] :
             o \in LabelOptions, q \in LabelOptions}

\* option.textPath of every dataLabels option.
textPaths(labels) == [i \in 1..Len(labels.list) |-> labels.list[i].textPath]

\* One call of an inherited draw method: the points and text paths it saw.
drawCall(pts, labels) ==
    [points |-> pts, textPaths |-> textPaths(labels)]

\* this.points = this.points.concat(points), with this.points the links.
restored(current, saved) == current \o saved

\* drawDataLabels(): the points, the options and the inherited calls.
drawDataLabels ==
    IF ~dataLabels.set
    THEN [points |-> seriesPoints, dataLabels |-> dataLabels,
          labelled |-> <<>>]
    ELSE LET asArray == [dataLabels EXCEPT !.isArray = TRUE]
             dataLabelOptions == textPaths(asArray)
             saved == seriesPoints
             linkLabels ==
                 [asArray EXCEPT !.list =
                     [i \in 1..Len(asArray.list) |->
                         [asArray.list[i] EXCEPT
                             !.textPath = asArray.list[i].linkTextPath]]]
             back ==
                 [linkLabels EXCEPT !.list =
                     [i \in 1..Len(linkLabels.list) |->
                         [linkLabels.list[i] EXCEPT
                             !.textPath = dataLabelOptions[i]]]]
         IN [points |-> restored(seriesLinkList, saved),
             dataLabels |-> back,
             labelled |-> <<drawCall(saved, asArray),
                            drawCall(seriesLinkList, linkLabels)>>]

InitDraw ==
    /\ TreeIdle
    /\ PassIdle
    /\ LinkIdle
    /\ StructIdle
    /\ LifeIdle
    /\ AttribIdle
    /\ SidebarIdle
    /\ \E n \in 1..MaxDrawNodes :
           /\ seriesPoints = [i \in 1..n |-> NodePoint(i)]
           /\ seriesLinkList = [i \in 1..(n - 1) |-> LinkPoint(i + 1)]
    /\ dataLabels \in LabelChoices
    /\ labelled = <<>>
    /\ drawPre = [points |-> seriesPoints, textPaths |-> textPaths(dataLabels)]
    /\ lastDraw = "none"

DrawDataLabels ==
    /\ Len(seriesPoints) + Len(seriesLinkList) <= MaxSeriesPoints
    /\ LET done == drawDataLabels
       IN /\ seriesPoints' = done.points
          /\ dataLabels' = done.dataLabels
          /\ labelled' = done.labelled
    /\ drawPre' = [points |-> seriesPoints, textPaths |-> textPaths(dataLabels)]
    /\ lastDraw' = "drawDataLabels"
    /\ UNCHANGED <<treeVars, passVars, linkVars, structVars, lifeVars,
                   attribVars, sidebarVars, seriesLinkList>>

\* drawPoints(): super.drawPoints on the nodes, ColumnSeries.prototype
\* .drawPoints on the links, then this.points = points.
DrawLinkPoints ==
    /\ labelled' = <<drawCall(seriesPoints, dataLabels),
                     drawCall(seriesLinkList, dataLabels)>>
    /\ seriesPoints' = seriesPoints
    /\ drawPre' = [points |-> seriesPoints, textPaths |-> textPaths(dataLabels)]
    /\ lastDraw' = "drawPoints"
    /\ UNCHANGED <<treeVars, passVars, linkVars, structVars, lifeVars,
                   attribVars, sidebarVars, seriesLinkList, dataLabels>>

NextDraw ==
    \/ DrawDataLabels
    \/ DrawLinkPoints

SpecDraw == InitDraw /\ [][NextDraw]_vars

\* ------------------------------------------------------------ claim C29
IsLink(point) == point[1] = "link"

\* C29: when drawPoints or drawDataLabels returns, series.points is the
\* list of node points it was before the call, with no link in it, and
\* every dataLabels option has the textPath it had before the call.
C29_PointsRestored ==
    lastDraw \in {"drawPoints", "drawDataLabels"} =>
        /\ seriesPoints = drawPre.points
        /\ \A i \in 1..Len(seriesPoints) : ~IsLink(seriesPoints[i])
        /\ textPaths(dataLabels) = drawPre.textPaths

\* =========================================================================
\* SpecSidebar: show() and hide() of the edit sidebar, and the listeners
\* they add for the end of the CSS transition of its container.
\* =========================================================================
MaxCallbacks == 4
Contexts == {"undefined", "cell"}

\* afterCSSAnimate(callback): addEvent on sidebar.container; a listener is
\* known by the method that added it.
afterCSSAnimate(list, callback) == Append(list, callback)

\* The listener added by show() / by hide(), run on the flag `active`.
runCallback(callback, active) ==
    IF callback = "show" THEN TRUE
    ELSE IF editActive THEN TRUE
    ELSE active

\* The listener assigns true to isContextDetectionActive.
assigns(callback) == callback = "show" \/ editActive

RECURSIVE runCallbacks(_, _, _)
runCallbacks(list, i, active) ==
    IF i > Len(list) THEN active
    ELSE runCallbacks(list, i + 1, runCallback(list[i], active))

InitSidebar ==
    /\ TreeIdle
    /\ PassIdle
    /\ LinkIdle
    /\ StructIdle
    /\ LifeIdle
    /\ AttribIdle
    /\ DrawIdle
    /\ isVisible = FALSE
    /\ context = "undefined"
    /\ currentTab = "none"
    /\ callbacks = <<>>
    /\ editActive \in BOOLEAN
    /\ isContextDetectionActive \in BOOLEAN
    /\ lastCall = "none"
    /\ assigned = FALSE

\* show(context)
Show(c) ==
    /\ isVisible \/ Len(callbacks) < MaxCallbacks
    /\ context' = c
    /\ currentTab' = IF c # "undefined" THEN "rowCell" ELSE "general"
    /\ IF ~isVisible
       THEN /\ isVisible' = TRUE
            /\ isContextDetectionActive' = FALSE
            /\ callbacks' = afterCSSAnimate(callbacks, "show")
       ELSE UNCHANGED <<isVisible, isContextDetectionActive, callbacks>>
    /\ lastCall' = "show"
    /\ assigned' = FALSE
    /\ UNCHANGED <<treeVars, passVars, linkVars, structVars, lifeVars,
                   attribVars, drawVars, editActive>>

\* hide()
Hide ==
    /\ Len(callbacks) < MaxCallbacks
    /\ context' = "undefined"
    /\ isVisible' = FALSE
    /\ isContextDetectionActive' = FALSE
    /\ callbacks' = afterCSSAnimate(callbacks, "hide")
    /\ lastCall' = "hide"
    /\ assigned' = FALSE
    /\ UNCHANGED <<treeVars, passVars, linkVars, structVars, lifeVars,
                   attribVars, drawVars, currentTab, editActive>>

\* A transition of the container ends: every listener runs, in the order
\* the listeners were added.
TransitionEnd ==
    /\ callbacks # <<>>
    /\ isContextDetectionActive' =
           runCallbacks(callbacks, 1, isContextDetectionActive)
    /\ assigned' = \E i \in 1..Len(callbacks) : assigns(callbacks[i])
    /\ UNCHANGED <<treeVars, passVars, linkVars, structVars, lifeVars,
                   attribVars, drawVars, isVisible, context, currentTab,
                   callbacks, editActive, lastCall>>

\* Edit mode is switched on or off.
SetEditMode(b) ==
    /\ b # editActive
    /\ editActive' = b
    /\ assigned' = FALSE
    /\ UNCHANGED <<treeVars, passVars, linkVars, structVars, lifeVars,
                   attribVars, drawVars, isVisible, context, currentTab,
                   callbacks, isContextDetectionActive, lastCall>>

NextSidebar ==
    \/ \E c \in Contexts : Show(c)
    \/ Hide
    \/ TransitionEnd
    \/ \E b \in BOOLEAN : SetEditMode(b)

SpecSidebar == InitSidebar /\ [][NextSidebar]_vars

\* ------------------------------------------------------------ claim C30
\* C30: when the latest of show() and hide() was hide() and edit mode is
\* not active, no transition end sets isContextDetectionActive to true.
C30_NoDetectionAfterHide ==
    (lastCall = "hide" /\ ~editActive) => ~assigned

====
